---- MODULE Spec2Model ----
(***************************************************************************)
(* SchemaEditorBridgeManager (src/src/Bubble/schema-editor): the singleton *)
(* that multiplexes the registered Bubble handlers onto one connection of  *)
(* the schema-editor host SDK.                                             *)
(*                                                                         *)
(* Manager objects and SDK connections live in bounded pools.  A slot is   *)
(* taken when the code builds the object and returns to the pool once      *)
(* nothing refers to it any more, so the bounds limit how many objects     *)
(* exist at once, never how long the program runs.  The static field       *)
(* `instance` points at the current manager (0 = null).                    *)
(*                                                                         *)
(* The registry is a Map from id to handler.  A handler is the object a    *)
(* caller builds for one register call; the Map holds the only reference   *)
(* the manager has to it, so registry[m][id] is the state of the handler   *)
(* at id: its content cell, whether its setter stores what it receives     *)
(* (the hook's does, a test's mock does not), whether it has a             *)
(* renderPreview.                                                          *)
(***************************************************************************)
EXTENDS Integers, Sequences, FiniteSets, TLC

\* ---------------------------------------------------------------- bounds
MaxInstances == 2
MaxConns == 2

\* ------------------------------------------------------------ input sets
Ids == {"a", "b"}
Contents == {"X", "W"}
ExistingContainers == {"c1", "c2"}
ContainerIds == ExistingContainers \cup {"missing"}

Str(s) == [t |-> "string", v |-> s]
Obj(s) == [t |-> "object", v |-> s]
\* SchemaValue inputs of the host: a string and the structured value {"k": s}
SchemaValues == {Str("Y"), Obj("Y")}

\* ------------------------------------------------------------- null values
NoInstance == 0
NoConn == 0
Free == -1
NoId == "null"
NoRoot == "null"
Undefined == "undefined"
Void == "void"

\* hook instances, and the inputs their components render them with
Hooks == {"h1", "h2"}
NoHookId == "none"
HookIds == Ids \cup {Undefined}
EnabledOptions == {"true", "false", Undefined}
Callbacks == {Undefined, "cb1", "cb2"}
Renderers == {Undefined, "r1"}
LocalContents == {"Y"}
NodeEnvs == {"development", "production", "test"}

Managers == 1..MaxInstances
ConnIds == 1..MaxConns

VARIABLES
  instance,          \* static instance: a manager, or NoInstance
  refs,              \* the manager objects somebody still holds a reference to
  registry,          \* registry[m][id]: the handler at id, or NoHandler
  cleanup,           \* cleanup[m]: the connection whose teardown m holds, or NoConn
  enabled,           \* enabled[m]
  previewRoot,       \* previewRoot[m]: the container the root was created on, or NoRoot
  currentEditingId,  \* currentEditingId[m]: an id, or NoId
  conns,             \* conns[c]: how often connection c's teardown was called, or Free
  balance,           \* balance[m]: connections m opened minus teardown calls m made
  live,              \* live[m]: the ids whose last register(id, _) on m no unregister(id)
                     \* has followed
  ret                \* the last call: operation, receiver, id (or containerId), other
                     \* argument, result, id of the handler called, whether a register
                     \* found another handler at its id (an unregister: an entry), root rendered into or
                     \* unmounted, connection opened or closed

\* useSchemaEditorBridge: the hook instances of the mounted components
VARIABLES
  hook,              \* hook[h]: whether h is mounted, the inputs of its last render (id,
                     \* config.enabled, initialContent, config.onContentChange,
                     \* config.renderPreview), its content state and contentRef.current,
                     \* and the id and manager its registration effect's cleanup holds
  pc,                \* the commit in progress: the hook, the effect steps still to run,
                     \* the effect's local `manager`, the id of the hook's previous render
  nodeEnv,           \* process.env.NODE_ENV
  hret               \* the last hook event: what happened, to which hook, with which
                     \* value, and the onContentChange calls it made

hookVars == <<hook, pc, nodeEnv, hret>>

progVars == <<instance, refs, registry, cleanup, enabled, previewRoot, currentEditingId,
              conns, balance>>
vars == <<instance, refs, registry, cleanup, enabled, previewRoot, currentEditingId,
          conns, balance, live, ret, hook, pc, nodeEnv, hret>>

\* { getContent: () => c, setContent, renderPreview? }
Handler(c, s, p) == [present |-> TRUE, content |-> c, stores |-> s, preview |-> p]
\* what registry.get(id) yields for an id without entry
NoHandler == [present |-> FALSE, content |-> "", stores |-> FALSE, preview |-> FALSE]
EmptyRegistry == [i \in Ids |-> NoHandler]

Call(op, m, id, arg) ==
  [op |-> op, m |-> m, id |-> id, arg |-> arg, val |-> Void, hid |-> NoId,
   replaced |-> FALSE, root |-> NoRoot, ev |-> Void]

\* a hook that is not mounted, no commit in progress, a hook event; handlerCb is
\* the onContentChange of the render whose setContent the registered handler holds
NoHook ==
  [mounted |-> FALSE, id |-> Undefined, enabled |-> Undefined, initialContent |-> "",
   onContentChange |-> Undefined, renderPreview |-> Undefined,
   content |-> "", contentRef |-> "", cleanupId |-> NoId, cleanupMgr |-> NoInstance,
   handlerCb |-> Undefined]

Idle == [h |-> NoHookId, todo |-> <<>>, mgr |-> NoInstance, oldId |-> Undefined]

HookEvent(op, h, arg) == [op |-> op, h |-> h, arg |-> arg, notified |-> <<>>]

Min(S) == CHOOSE x \in S : \A y \in S : x <= y

\* registry.size, registry.has, isEnabled
SizeOf(reg) == Cardinality({i \in Ids : reg[i].present})
getRegistrySize(m) == SizeOf(registry[m])
has(m, id) == registry[m][id].present
isEnabled(m) == enabled[m]

\* ------------------------------------------------------------ object pools
\* a connection torn down once that no manager holds any more is gone for good
CollectConns(cs, cl) ==
  [c \in ConnIds |-> IF cs[c] = 1 /\ \A m \in Managers : cl[m] # c THEN Free ELSE cs[c]]

FreeManagers == Managers \ refs

Init ==
  /\ instance = NoInstance
  /\ refs = {}
  /\ registry = [m \in Managers |-> EmptyRegistry]
  /\ cleanup = [m \in Managers |-> NoConn]
  /\ enabled = [m \in Managers |-> FALSE]
  /\ previewRoot = [m \in Managers |-> NoRoot]
  /\ currentEditingId = [m \in Managers |-> NoId]
  /\ conns = [c \in ConnIds |-> Free]
  /\ balance = [m \in Managers |-> 0]
  /\ live = [m \in Managers |-> {}]
  /\ ret = Call("init", NoInstance, NoId, Void)
  /\ hook = [h \in Hooks |-> NoHook]
  /\ pc = Idle
  /\ nodeEnv = "test"
  /\ hret = HookEvent("init", NoHookId, Void)

\* ---------------------------------------------------- the bridge connection
\* A bridge state is what the two private methods touch: this.cleanup, the
\* connections of the SDK, and the count of opens less teardown calls.
BridgeOf(m) == [cleanup |-> cleanup[m], conns |-> conns, balance |-> balance[m]]

FreeConns(cs) == {c \in ConnIds : cs[c] = Free}
CanOpen(b) == b.cleanup # NoConn \/ FreeConns(b.conns) # {}

\* createSchemaEditorBridge(...) returns the teardown of a new connection
createSchemaEditorBridge(cs) == Min(FreeConns(cs))

startBridge(b) ==
  IF b.cleanup # NoConn
    THEN b
    ELSE LET c == createSchemaEditorBridge(b.conns) IN
         [cleanup |-> c, conns |-> [b.conns EXCEPT ![c] = 0], balance |-> b.balance + 1]

\* a stopBridge that calls the teardown and forgets to drop it
stopBridgeKeep(b) ==
  IF b.cleanup # NoConn
    THEN [cleanup |-> b.cleanup,
          conns |-> [b.conns EXCEPT ![b.cleanup] = @ + 1],
          balance |-> b.balance - 1]
    ELSE b

stopBridge(b) ==
  IF b.cleanup # NoConn
    THEN [cleanup |-> NoConn,
          conns |-> [b.conns EXCEPT ![b.cleanup] = @ + 1],
          balance |-> b.balance - 1]
    ELSE b

\* whether a method called the SDK factory ("opened") or a teardown ("closed")
BridgeEvent(m, b) ==
  IF b.balance > balance[m] THEN "opened"
  ELSE IF b.balance < balance[m] THEN "closed" ELSE Void

\* what a method leaves behind in this.cleanup, the SDK and the open/close count
ApplyBridge(m, b) ==
  LET cl == [cleanup EXCEPT ![m] = b.cleanup] IN
  /\ cleanup' = cl
  /\ conns' = CollectConns(b.conns, cl)
  /\ balance' = [balance EXCEPT ![m] = b.balance]

\* ---------------------------------------------------------------- getInstance
\* new SchemaEditorBridgeManager(): the field initialisers
Construct(m) ==
  /\ registry' = [registry EXCEPT ![m] = EmptyRegistry]
  /\ cleanup' = [cleanup EXCEPT ![m] = NoConn]
  /\ enabled' = [enabled EXCEPT ![m] = FALSE]
  /\ previewRoot' = [previewRoot EXCEPT ![m] = NoRoot]
  /\ currentEditingId' = [currentEditingId EXCEPT ![m] = NoId]
  /\ balance' = [balance EXCEPT ![m] = 0]
  /\ live' = [live EXCEPT ![m] = {}]

\* a getInstance that builds a new manager on every call
GetInstanceAlwaysNew ==
  /\ FreeManagers # {}
  /\ LET m == Min(FreeManagers) IN
     /\ Construct(m)
     /\ instance' = m
     /\ refs' = refs \cup {m}
  /\ ret' = Call("getInstance", instance', NoId, Void)
  /\ UNCHANGED conns

GetInstance ==
  /\ IF instance = NoInstance
       THEN /\ FreeManagers # {}
            /\ LET m == Min(FreeManagers) IN
               /\ Construct(m)
               /\ instance' = m
               /\ refs' = refs \cup {m}
       ELSE UNCHANGED <<instance, refs, registry, cleanup, enabled, previewRoot,
                        currentEditingId, balance, live>>
  /\ ret' = Call("getInstance", instance', NoId, Void)
  /\ UNCHANGED conns

\* ------------------------------------------------------------------ setEnabled
\* a setEnabled whose second branch lost its condition
setEnabledBridgeElse(m, e) ==
  LET wasEnabled == enabled[m] IN
  IF e /\ ~wasEnabled /\ getRegistrySize(m) > 0
    THEN startBridge(BridgeOf(m))
    ELSE stopBridge(BridgeOf(m))

setEnabledBridge(m, e) ==
  LET wasEnabled == enabled[m] IN
  IF e /\ ~wasEnabled /\ getRegistrySize(m) > 0
    THEN startBridge(BridgeOf(m))
    ELSE IF ~e /\ wasEnabled
      THEN stopBridge(BridgeOf(m))
      ELSE BridgeOf(m)

SetEnabled(m, e) ==
  LET b == setEnabledBridge(m, e) IN
  /\ m \in refs
  /\ CanOpen(BridgeOf(m))
  /\ enabled' = [enabled EXCEPT ![m] = e]
  /\ ApplyBridge(m, b)
  /\ ret' = [Call("setEnabled", m, NoId, e) EXCEPT !.ev = BridgeEvent(m, b)]
  /\ UNCHANGED <<instance, refs, registry, previewRoot, currentEditingId, live>>

\* -------------------------------------------------------------------- register
\* a register that keeps the entry an id already has
registrySetIfAbsent(reg, id, h) == IF reg[id].present THEN reg ELSE [reg EXCEPT ![id] = h]

registrySet(reg, id, h) == [reg EXCEPT ![id] = h]

\* a register that starts the bridge whatever the enabled flag says
registerBridgeAlways(m) == startBridge(BridgeOf(m))

registerBridge(m) ==
  IF enabled[m] THEN startBridge(BridgeOf(m)) ELSE BridgeOf(m)

Register(m, id, h) ==
  LET b == registerBridge(m) IN
  /\ m \in refs
  /\ CanOpen(BridgeOf(m))
  /\ registry' = [registry EXCEPT ![m] = registrySet(@, id, h)]
  /\ ApplyBridge(m, b)
  /\ live' = [live EXCEPT ![m] = @ \cup {id}]
  /\ ret' = [Call("register", m, id, h) EXCEPT
               !.replaced = has(m, id) /\ registry[m][id] # h, !.ev = BridgeEvent(m, b)]
  /\ UNCHANGED <<instance, refs, enabled, previewRoot, currentEditingId>>

\* ------------------------------------------------------------------ unregister
\* an unregister that leaves the bridge running when the registry empties
unregisterBridgeNever(m, reg) == BridgeOf(m)

\* an unregister that stops the bridge whatever is left in the registry
unregisterBridgeAlways(m, reg) == stopBridge(BridgeOf(m))

\* an unregister that clears the registry
registryDeleteAll(reg, id) == [i \in Ids |-> NoHandler]

registryDelete(reg, id) == [reg EXCEPT ![id] = NoHandler]

unregisterBridge(m, reg) ==
  IF SizeOf(reg) = 0 THEN stopBridge(BridgeOf(m)) ELSE BridgeOf(m)

Unregister(m, id) ==
  LET reg == registryDelete(registry[m], id)
      b == unregisterBridge(m, reg) IN
  /\ m \in refs
  /\ registry' = [registry EXCEPT ![m] = reg]
  /\ ApplyBridge(m, b)
  /\ live' = [live EXCEPT ![m] = @ \ {id}]
  /\ ret' = [Call("unregister", m, id, Void) EXCEPT
               !.replaced = has(m, id), !.ev = BridgeEvent(m, b)]
  /\ UNCHANGED <<instance, refs, enabled, previewRoot, currentEditingId>>

\* --------------------------------------------------------------------- destroy
destroyBridge(m) == stopBridge(BridgeOf(m))
destroyRegistry(reg) == EmptyRegistry
destroyEditingId(id) == NoId

\* a destroy that leaves the preview root in place
destroyPreviewRootKeep(root) == root

\* previewRoot.unmount(); previewRoot = null
destroyPreviewRoot(root) == NoRoot

\* keep: whether a caller goes on holding the reference getInstance() gave it
Destroy(keep) ==
  /\ IF instance # NoInstance
       THEN LET m == instance
                reg == destroyRegistry(registry[m])
                b == destroyBridge(m) IN
            /\ ApplyBridge(m, b)
            /\ registry' = [registry EXCEPT ![m] = reg]
            /\ currentEditingId' =
                 [currentEditingId EXCEPT ![m] = destroyEditingId(currentEditingId[m])]
            /\ previewRoot' = [previewRoot EXCEPT ![m] = destroyPreviewRoot(previewRoot[m])]
            /\ live' = [live EXCEPT ![m] = {}]
            /\ instance' = NoInstance
            /\ refs' = IF keep THEN refs ELSE refs \ {m}
            /\ ret' = [Call("destroy", m, NoId, keep) EXCEPT
                         !.root = previewRoot[m], !.ev = BridgeEvent(m, b)]
       ELSE /\ ret' = Call("destroy", NoInstance, NoId, keep)
            /\ UNCHANGED <<instance, refs, registry, cleanup, previewRoot, currentEditingId,
                           conns, balance, live>>
  /\ UNCHANGED enabled

\* --------------------------------------------- callbacks of an open connection
\* JSON.stringify(schema, null, 2): a string is quoted, the structured value
\* {"k": s} is laid out with an indent of two
JsonStringify(schema) ==
  IF schema.t = "string"
    THEN "\"" \o schema.v \o "\""
    ELSE "{\n  \"k\": \"" \o schema.v \o "\"\n}"

\* a coercion that serializes strings too
CoerceStringifyAlways(schema) == JsonStringify(schema)

\* typeof schema === 'string' ? schema : JSON.stringify(schema, null, 2)
Coerce(schema) == IF schema.t = "string" THEN schema.v ELSE JsonStringify(schema)

\* the host calls back only through a connection that has not been torn down
Connected(m) == m \in refs /\ cleanup[m] # NoConn

\* a query that leaves the current-editing id alone when the id is unknown
getSchemaEditingIdKeep(m, id) == IF has(m, id) THEN id ELSE currentEditingId[m]

getSchemaEditingId(m, id) == IF has(m, id) THEN id ELSE NoId

\* handler.getContent(), or undefined when the id has no handler
getSchemaResult(m, id) == IF has(m, id) THEN registry[m][id].content ELSE Undefined

GetSchema(m, id) ==
  /\ Connected(m)
  /\ currentEditingId' = [currentEditingId EXCEPT ![m] = getSchemaEditingId(m, id)]
  /\ ret' = [Call("getSchema", m, id, Void) EXCEPT !.val = getSchemaResult(m, id)]
  /\ UNCHANGED <<instance, refs, registry, cleanup, enabled, previewRoot,
                 conns, balance, live>>

\* handler.setContent(content): a storing handler keeps it, a mock setter does not
setContent(h, content) == IF h.stores THEN [h EXCEPT !.content = content] ELSE h

\* an update that falls back to the handler being edited when the id is unknown
updateSchemaHandlerFallback(m, id) ==
  IF has(m, id) THEN id
  ELSE IF currentEditingId[m] # NoId /\ has(m, currentEditingId[m])
    THEN currentEditingId[m]
    ELSE NoId

\* the id whose handler registry.get(params) yields, or NoId
updateSchemaHandler(m, id) == IF has(m, id) THEN id ELSE NoId

UpdateSchema(m, schema, id) ==
  LET hid == updateSchemaHandler(m, id) IN
  /\ Connected(m)
  /\ IF hid = NoId
       THEN /\ ret' = [Call("updateSchema", m, id, schema) EXCEPT !.val = FALSE]
            /\ UNCHANGED registry
       ELSE /\ registry' = [registry EXCEPT ![m][hid] = setContent(@, Coerce(schema))]
            /\ ret' = [Call("updateSchema", m, id, schema) EXCEPT !.val = TRUE, !.hid = hid]
  /\ UNCHANGED <<instance, refs, cleanup, enabled, previewRoot,
                 currentEditingId, conns, balance, live>>

\* a renderPreview that, with no usable current-editing id, takes the renderer of
\* whichever registered handler supplies one
renderPreviewHandlerAny(m) ==
  IF currentEditingId[m] # NoId
       /\ has(m, currentEditingId[m])
       /\ registry[m][currentEditingId[m]].preview
    THEN currentEditingId[m]
    ELSE IF \E i \in Ids : has(m, i) /\ registry[m][i].preview
      THEN CHOOSE i \in Ids : has(m, i) /\ registry[m][i].preview
      ELSE NoId

\* the id whose handler's renderPreview the preview is delegated to, or NoId
renderPreviewHandler(m) ==
  IF currentEditingId[m] # NoId
       /\ has(m, currentEditingId[m])
       /\ registry[m][currentEditingId[m]].preview
    THEN currentEditingId[m]
    ELSE NoId

\* createDefaultPreview: the root is created on the container of the first call
createDefaultPreviewRoot(m, containerId) ==
  IF previewRoot[m] = NoRoot THEN containerId ELSE previewRoot[m]

\* a renderPreview whose fallback does not look whether the container exists
RenderPreviewAnyContainer(m, schema, containerId) ==
  LET hid == renderPreviewHandler(m) IN
  /\ Connected(m)
  /\ IF hid # NoId
       THEN /\ ret' = [Call("renderPreview", m, containerId, schema) EXCEPT
                         !.val = "custom", !.hid = hid]
            /\ UNCHANGED previewRoot
       ELSE LET root == createDefaultPreviewRoot(m, containerId) IN
            /\ previewRoot' = [previewRoot EXCEPT ![m] = root]
            /\ ret' = [Call("renderPreview", m, containerId, schema) EXCEPT
                         !.val = Coerce(schema), !.root = root]
  /\ UNCHANGED <<instance, refs, registry, cleanup, enabled, currentEditingId,
                 conns, balance, live>>

RenderPreview(m, schema, containerId) ==
  LET hid == renderPreviewHandler(m) IN
  /\ Connected(m)
  /\ IF hid # NoId
       THEN /\ ret' = [Call("renderPreview", m, containerId, schema) EXCEPT
                         !.val = "custom", !.hid = hid]
            /\ UNCHANGED previewRoot
       ELSE IF containerId \notin ExistingContainers
         THEN /\ ret' = Call("renderPreview", m, containerId, schema)
              /\ UNCHANGED previewRoot
         ELSE LET root == createDefaultPreviewRoot(m, containerId) IN
              /\ previewRoot' = [previewRoot EXCEPT ![m] = root]
              /\ ret' = [Call("renderPreview", m, containerId, schema) EXCEPT
                           !.val = Coerce(schema), !.root = root]
  /\ UNCHANGED <<instance, refs, registry, cleanup, enabled, currentEditingId,
                 conns, balance, live>>

\* the teardown closure createDefaultPreview returned; with no root it does nothing
PreviewTeardown(m) ==
  /\ m \in refs
  /\ previewRoot[m] # NoRoot
  /\ previewRoot' = [previewRoot EXCEPT ![m] = NoRoot]
  /\ ret' = [Call("previewTeardown", m, NoId, Void) EXCEPT !.root = previewRoot[m]]
  /\ UNCHANGED <<instance, refs, registry, cleanup, enabled, currentEditingId,
                 conns, balance, live>>

\* ------------------------------------------------------ useSchemaEditorBridge
mgrVars == <<instance, refs, registry, cleanup, enabled, previewRoot, currentEditingId,
             conns, balance, live, ret>>

\* a default that follows the environment: on in development only
enabledDefaultByEnv(opt) == IF opt = Undefined THEN nodeEnv = "development" ELSE opt = "true"

\* const { enabled = true } = config || {}
enabledDefault(opt) == IF opt = Undefined THEN TRUE ELSE opt = "true"

\* a hook that takes part whenever it has an id, enabled or not
participatesWithId(hk) == hk.id # Undefined

\* the negation of: !id || !enabled
participates(hk) == hk.id # Undefined /\ enabledDefault(hk.enabled)

\* setContentInternal of useRefState: the ref at once, the state for the next render
setContentInternal(hk, v) == [hk EXCEPT !.content = v, !.contentRef = v]

\* a setter that calls the callback of the render that registered the handler
onContentChangeCallsAtRegistration(hk, v) ==
  IF hk.handlerCb # Undefined THEN <<[cb |-> hk.handlerCb, v |-> v]>> ELSE <<>>

\* onContentChangeRef.current?.(newContent)
onContentChangeCalls(hk, v) ==
  IF hk.onContentChange # Undefined THEN <<[cb |-> hk.onContentChange, v |-> v]>> ELSE <<>>

\* the hook's setContent: the hook afterwards and the callbacks it called
hookSetContent(hk, v) ==
  [hook |-> setContentInternal(hk, v), notified |-> onContentChangeCalls(hk, v)]

\* a handler whose getContent returns the content of the render that registered it
syncHandlerStale(regs, hk) == regs

\* getContent: () => contentRef.current, for the handler the hook has registered
syncHandler(regs, hk) ==
  IF hk.cleanupId # NoId /\ regs[hk.cleanupMgr][hk.cleanupId].present
    THEN [regs EXCEPT ![hk.cleanupMgr][hk.cleanupId].content = hk.contentRef]
    ELSE regs

\* a commit that seeds the content on mount only
commitPlanSeedOnMount(old, new) ==
  LET regChanged == \/ ~old.mounted
                    \/ old.id # new.id
                    \/ enabledDefault(old.enabled) # enabledDefault(new.enabled) IN
  (IF regChanged /\ old.cleanupId # NoId THEN <<"cleanup">> ELSE <<>>)
  \o (IF ~old.mounted THEN <<"initial">> ELSE <<>>)
  \o (IF ~regChanged THEN <<>>
      ELSE IF participates(new) THEN <<"getInstance", "setEnabled", "register">>
      ELSE <<"getInstance", "disabled">>)

\* a commit that runs the new effect before the old effect's cleanup
commitPlanEffectFirst(old, new) ==
  LET regChanged == \/ ~old.mounted
                    \/ old.id # new.id
                    \/ enabledDefault(old.enabled) # enabledDefault(new.enabled)
      iniChanged == ~old.mounted \/ old.initialContent # new.initialContent IN
  (IF iniChanged THEN <<"initial">> ELSE <<>>)
  \o (IF ~regChanged THEN <<>>
      ELSE IF participates(new) THEN <<"getInstance", "setEnabled", "register">>
      ELSE <<"getInstance", "disabled">>)
  \o (IF regChanged /\ old.cleanupId # NoId THEN <<"cleanup">> ELSE <<>>)

\* what a commit runs after a render: the cleanup of the registration effect when
\* [id, enabled] changed, the initialContent effect when [initialContent] changed,
\* then the registration effect, one manager call at a time
commitPlan(old, new) ==
  LET regChanged == \/ ~old.mounted
                    \/ old.id # new.id
                    \/ enabledDefault(old.enabled) # enabledDefault(new.enabled)
      iniChanged == ~old.mounted \/ old.initialContent # new.initialContent IN
  (IF regChanged /\ old.cleanupId # NoId THEN <<"cleanup">> ELSE <<>>)
  \o (IF iniChanged THEN <<"initial">> ELSE <<>>)
  \o (IF ~regChanged THEN <<>>
      ELSE IF participates(new) THEN <<"getInstance", "setEnabled", "register">>
      ELSE <<"getInstance", "disabled">>)

\* no two hooks are rendered with the same id
UniqueId(h, id) == id = Undefined \/ \A h2 \in Hooks \ {h} : hook[h2].id # id

\* the body of useSchemaEditorBridge runs: useRefState seeds on mount, useLatest
\* takes the new callbacks, and the effects whose dependencies changed are due
Render(op, h, new) ==
  LET plan == commitPlan(hook[h], new) IN
  /\ pc = Idle
  /\ UniqueId(h, new.id)
  /\ hook' = [hook EXCEPT ![h] = new]
  /\ pc' = IF plan = <<>> THEN Idle
           ELSE [h |-> h, todo |-> plan, mgr |-> NoInstance, oldId |-> hook[h].id]
  /\ hret' = HookEvent(op, h, Void)
  /\ UNCHANGED <<mgrVars, nodeEnv>>

HookMount(h, id, en, ini, cb, rp) ==
  /\ ~hook[h].mounted
  /\ Render("mount", h,
            [mounted |-> TRUE, id |-> id, enabled |-> en, initialContent |-> ini,
             onContentChange |-> cb, renderPreview |-> rp,
             content |-> ini, contentRef |-> ini,
             cleanupId |-> NoId, cleanupMgr |-> NoInstance, handlerCb |-> Undefined])

HookRerender(h, id, en, ini, cb, rp) ==
  LET new == [hook[h] EXCEPT !.id = id, !.enabled = en, !.initialContent = ini,
                             !.onContentChange = cb, !.renderPreview = rp] IN
  /\ hook[h].mounted
  /\ new # hook[h]
  /\ Render("rerender", h, new)

\* the commit in progress is due to run `step`; where it stands once that is done
AtStep(step) == pc.h # NoHookId /\ Head(pc.todo) = step
NextPc(p) == IF Tail(p.todo) = <<>> THEN Idle ELSE [p EXCEPT !.todo = Tail(@)]

\* return () => { manager.unregister(id) }: the cleanup of the previous effect run
StepCleanup ==
  /\ AtStep("cleanup")
  /\ Unregister(hook[pc.h].cleanupMgr, hook[pc.h].cleanupId)
  /\ hook' = [hook EXCEPT ![pc.h].cleanupId = NoId, ![pc.h].cleanupMgr = NoInstance,
                          ![pc.h].handlerCb = Undefined]
  /\ pc' = NextPc(pc)
  /\ UNCHANGED <<nodeEnv, hret>>

\* an initialContent effect that seeds through the hook's setContent
seedContentNotifying(hk) == hookSetContent(hk, hk.initialContent)

\* setContentInternal(initialContent): the hook afterwards and the callbacks called
seedContent(hk) ==
  [hook |-> setContentInternal(hk, hk.initialContent), notified |-> <<>>]

\* useEffect(() => { setContentInternal(initialContent) }, [initialContent])
StepInitial ==
  /\ AtStep("initial")
  /\ LET r == seedContent(hook[pc.h]) IN
     /\ hook' = [hook EXCEPT ![pc.h] = r.hook]
     /\ registry' = syncHandler(registry, r.hook)
     /\ hret' = [hret EXCEPT !.notified = @ \o r.notified]
  /\ pc' = NextPc(pc)
  /\ UNCHANGED <<instance, refs, cleanup, enabled, previewRoot, currentEditingId,
                 conns, balance, live, ret, nodeEnv>>

\* const manager = SchemaEditorBridgeManager.getInstance()
StepGetInstance ==
  /\ AtStep("getInstance")
  /\ GetInstance
  /\ pc' = NextPc([pc EXCEPT !.mgr = instance'])
  /\ UNCHANGED <<hook, nodeEnv, hret>>

\* if (id && manager.has(id)) manager.unregister(id); return
StepDisabled ==
  /\ AtStep("disabled")
  /\ IF hook[pc.h].id # Undefined /\ has(pc.mgr, hook[pc.h].id)
       THEN Unregister(pc.mgr, hook[pc.h].id)
       ELSE UNCHANGED mgrVars
  /\ pc' = NextPc(pc)
  /\ UNCHANGED <<hook, nodeEnv, hret>>

\* manager.setEnabled(true)
StepSetEnabled ==
  /\ AtStep("setEnabled")
  /\ SetEnabled(pc.mgr, TRUE)
  /\ pc' = NextPc(pc)
  /\ UNCHANGED <<hook, nodeEnv, hret>>

\* manager.register(id, { getContent, setContent, renderPreview }); the effect
\* returns the cleanup that holds id and manager
StepRegister ==
  /\ AtStep("register")
  /\ Register(pc.mgr, hook[pc.h].id,
              Handler(hook[pc.h].contentRef, TRUE, hook[pc.h].renderPreview # Undefined))
  /\ hook' = [hook EXCEPT ![pc.h].cleanupId = hook[pc.h].id, ![pc.h].cleanupMgr = pc.mgr,
                          ![pc.h].handlerCb = hook[pc.h].onContentChange]
  /\ pc' = NextPc(pc)
  /\ UNCHANGED <<nodeEnv, hret>>

\* the component unmounts: the registration effect's cleanup runs, if there is one
HookUnmount(h) ==
  /\ pc = Idle
  /\ hook[h].mounted
  /\ IF hook[h].cleanupId # NoId
       THEN Unregister(hook[h].cleanupMgr, hook[h].cleanupId)
       ELSE UNCHANGED mgrVars
  /\ hook' = [hook EXCEPT ![h] = NoHook]
  /\ hret' = HookEvent("unmount", h, Void)
  /\ UNCHANGED <<pc, nodeEnv>>

\* the component calls the setter the hook returned
HookSetContent(h, v) ==
  LET r == hookSetContent(hook[h], v) IN
  /\ pc = Idle
  /\ hook[h].mounted
  /\ hook' = [hook EXCEPT ![h] = r.hook]
  /\ registry' = syncHandler(registry, r.hook)
  /\ hret' = [HookEvent("setContent", h, v) EXCEPT !.notified = r.notified]
  /\ UNCHANGED <<instance, refs, cleanup, enabled, previewRoot, currentEditingId,
                 conns, balance, live, ret, pc, nodeEnv>>

\* the hook whose handler is the entry at id of manager m
HandlerOwner(m, id) == {h \in Hooks : hook[h].cleanupMgr = m /\ hook[h].cleanupId = id}

\* the host's content update reaches handler.setContent, the hook's setContent
HookUpdateSchema(schema, id) ==
  /\ pc = Idle
  /\ UpdateSchema(instance, schema, id)
  /\ IF updateSchemaHandler(instance, id) # NoId /\ HandlerOwner(instance, id) # {}
       THEN LET h == CHOOSE o \in HandlerOwner(instance, id) : TRUE
                r == hookSetContent(hook[h], Coerce(schema)) IN
            /\ hook' = [hook EXCEPT ![h] = r.hook]
            /\ hret' = [HookEvent("updateSchema", h, Coerce(schema)) EXCEPT
                          !.notified = r.notified]
       ELSE /\ hret' = HookEvent("updateSchema", NoHookId, Coerce(schema))
            /\ UNCHANGED hook
  /\ UNCHANGED <<pc, nodeEnv>>

\* the host's content query reaches handler.getContent
HookGetSchema(id) ==
  /\ pc = Idle
  /\ GetSchema(instance, id)
  /\ hret' = HookEvent("getSchema", NoHookId, Void)
  /\ UNCHANGED <<hook, pc, nodeEnv>>

\* process.env.NODE_ENV = e
SetNodeEnv(e) ==
  /\ pc = Idle
  /\ e # nodeEnv
  /\ nodeEnv' = e
  /\ hret' = HookEvent("setNodeEnv", NoHookId, e)
  /\ UNCHANGED <<mgrVars, hook, pc>>
\* Every caller reaches the manager through getInstance(), as the hook does.
\* No hook is mounted.
Next ==
  \/ GetInstance /\ UNCHANGED hookVars
  \/ Destroy(FALSE) /\ UNCHANGED hookVars
  \/ \E e \in BOOLEAN : SetEnabled(instance, e) /\ UNCHANGED hookVars
  \/ \E id \in Ids, c \in Contents, s \in BOOLEAN, p \in BOOLEAN :
       Register(instance, id, Handler(c, s, p)) /\ UNCHANGED hookVars
  \/ \E id \in Ids : Unregister(instance, id) /\ UNCHANGED hookVars
  \/ \E id \in Ids : GetSchema(instance, id) /\ UNCHANGED hookVars
  \/ \E schema \in SchemaValues, id \in Ids :
       UpdateSchema(instance, schema, id) /\ UNCHANGED hookVars
  \/ \E schema \in SchemaValues, c \in ContainerIds :
       RenderPreview(instance, schema, c) /\ UNCHANGED hookVars
  \/ PreviewTeardown(instance) /\ UNCHANGED hookVars

Spec == Init /\ [][Next]_vars

\* Callers may keep the reference getInstance() returned across a destroy() and go
\* on calling the manager's methods through it.
NextRetained ==
  \/ GetInstance /\ UNCHANGED hookVars
  \/ \E keep \in BOOLEAN : Destroy(keep) /\ UNCHANGED hookVars
  \/ \E m \in Managers, e \in BOOLEAN : SetEnabled(m, e) /\ UNCHANGED hookVars
  \/ \E m \in Managers, id \in Ids :
       Register(m, id, Handler("X", TRUE, FALSE)) /\ UNCHANGED hookVars
  \/ \E m \in Managers, id \in Ids : Unregister(m, id) /\ UNCHANGED hookVars
  \/ \E m \in Managers, id \in Ids : GetSchema(m, id) /\ UNCHANGED hookVars

SpecRetained == Init /\ [][NextRetained]_vars

\* The same callers, looked at for which object getInstance() hands out: they enable
\* and disable the manager they hold and register and unregister one id on it.
NextIdentity ==
  \/ GetInstance /\ UNCHANGED hookVars
  \/ \E keep \in BOOLEAN : Destroy(keep) /\ UNCHANGED hookVars
  \/ \E m \in Managers, e \in BOOLEAN : SetEnabled(m, e) /\ UNCHANGED hookVars
  \/ \E m \in Managers : Register(m, "a", Handler("X", TRUE, FALSE)) /\ UNCHANGED hookVars
  \/ \E m \in Managers : Unregister(m, "a") /\ UNCHANGED hookVars

SpecIdentity == Init /\ [][NextIdentity]_vars

\* Components mount, re-render with another id or another enabled option, and
\* unmount; nothing but their hooks calls the manager, and nobody destroys it.
NextHook ==
  \/ \E h \in Hooks, id \in HookIds, en \in EnabledOptions :
       HookMount(h, id, en, "X", Undefined, Undefined)
  \/ \E h \in Hooks, id \in HookIds, en \in EnabledOptions :
       HookRerender(h, id, en, "X", Undefined, Undefined)
  \/ \E h \in Hooks : HookUnmount(h)
  \/ StepCleanup
  \/ StepInitial
  \/ StepGetInstance
  \/ StepDisabled
  \/ StepSetEnabled
  \/ StepRegister
  \/ \E id \in Ids : HookGetSchema(id)
  \/ \E e \in NodeEnvs : SetNodeEnv(e)

SpecHook == Init /\ [][NextHook]_vars

\* Each component keeps its id.  The first re-renders with another enabled,
\* initialContent or onContentChange; the second is a bystander with fixed
\* props.  Both set their content, and the host queries and updates contents.
HomeId(h) == IF h = "h1" THEN "a" ELSE "b"

NextHookContent ==
  \/ \E en \in {"true", "false"}, ini \in Contents, cb \in Callbacks :
       HookMount("h1", HomeId("h1"), en, ini, cb, Undefined)
  \/ HookMount("h2", HomeId("h2"), "true", "X", Undefined, Undefined)
  \/ \E en \in {"true", "false"}, ini \in Contents, cb \in Callbacks :
       HookRerender("h1", HomeId("h1"), en, ini, cb, Undefined)
  \/ \E h \in Hooks : HookUnmount(h)
  \/ StepCleanup
  \/ StepInitial
  \/ StepGetInstance
  \/ StepDisabled
  \/ StepSetEnabled
  \/ StepRegister
  \/ \E h \in Hooks, v \in LocalContents : HookSetContent(h, v)
  \/ \E schema \in SchemaValues, id \in Ids : HookUpdateSchema(schema, id)
  \/ \E id \in Ids : HookGetSchema(id)

SpecHookContent == Init /\ [][NextHookContent]_vars

\* Components mount, re-render and unmount while other code of the page registers
\* handlers of its own on the manager, a mock-style handler whose setter stores
\* nothing; only hooks unregister.
DirectHandler == Handler("W", FALSE, FALSE)

NextHookShared ==
  \/ \E h \in Hooks, id \in HookIds, en \in {"true", "false"} :
       HookMount(h, id, en, "X", Undefined, Undefined)
  \/ \E h \in Hooks, id \in HookIds, en \in {"true", "false"} :
       HookRerender(h, id, en, "X", Undefined, Undefined)
  \/ \E h \in Hooks : HookUnmount(h)
  \/ StepCleanup
  \/ StepInitial
  \/ StepGetInstance
  \/ StepDisabled
  \/ StepSetEnabled
  \/ StepRegister
  \/ pc = Idle /\ GetInstance /\ UNCHANGED hookVars
  \/ \E id \in Ids :
       pc = Idle /\ Register(instance, id, DirectHandler) /\ UNCHANGED hookVars

SpecHookShared == Init /\ [][NextHookShared]_vars

\* Each component keeps its id and re-renders with another enabled or another
\* renderPreview option; the host queries contents and asks for previews.
NextHookPreview ==
  \/ \E h \in Hooks, en \in {"true", "false"}, rp \in Renderers :
       HookMount(h, HomeId(h), en, "X", Undefined, rp)
  \/ \E h \in Hooks, en \in {"true", "false"}, rp \in Renderers :
       HookRerender(h, HomeId(h), en, "X", Undefined, rp)
  \/ \E h \in Hooks : HookUnmount(h)
  \/ StepCleanup
  \/ StepInitial
  \/ StepGetInstance
  \/ StepDisabled
  \/ StepSetEnabled
  \/ StepRegister
  \/ \E id \in Ids : HookGetSchema(id)
  \/ \E c \in ContainerIds :
       pc = Idle /\ RenderPreview(instance, Str("Y"), c) /\ UNCHANGED hookVars

SpecHookPreview == Init /\ [][NextHookPreview]_vars

\* ======================================================================
\* Properties
\* ======================================================================
Registered(m) == live[m]
IsOpen(m) == cleanup[m] # NoConn

\* C1: after every call, a manager holds an open connection if and only if its
\* enabled flag is true and its registry is non-empty.
C1_OpenIffEnabledAndNonEmpty ==
  \A m \in Managers : IsOpen(m) <=> (isEnabled(m) /\ getRegistrySize(m) > 0)

\* the last entry was just removed from an enabled manager, which closed the connection
C1_Witness ==
  /\ ret.op = "unregister"
  /\ ret.ev = "closed"
  /\ isEnabled(ret.m)
  /\ getRegistrySize(ret.m) = 0
  /\ ~IsOpen(ret.m)

\* C2: at any time at most one connection is open in the whole process.
C2_AtMostOneConnection ==
  Cardinality({c \in ConnIds : conns[c] = 0}) <= 1

\* C3: no teardown is called twice, every connection that is still open is held by
\* a manager, and a manager's opens less its teardown calls is 0 or 1, and 1
\* exactly while it holds a connection.
C3_ClosedExactlyOnce ==
  /\ \A c \in ConnIds :
       conns[c] # Free => /\ conns[c] = 0
                          /\ Cardinality({m \in Managers : cleanup[m] = c}) = 1
  /\ \A m \in Managers :
       /\ balance[m] \in {0, 1}
       /\ balance[m] = 1 <=> IsOpen(m)
       /\ IsOpen(m) => conns[cleanup[m]] = 0

\* a disable has torn the connection down while handlers stay registered
C3_Witness ==
  /\ ret.op = "setEnabled"
  /\ ret.arg = FALSE
  /\ ret.ev = "closed"
  /\ getRegistrySize(ret.m) > 0
  /\ balance[ret.m] = 0
  /\ \A c \in ConnIds : conns[c] = Free

\* C4: has(id) is true exactly for the ids whose last register was not followed by
\* an unregister, and getRegistrySize() is the number of those ids.
C4_SizeCountsRegisteredIds ==
  \A m \in Managers :
    /\ \A i \in Ids : has(m, i) <=> i \in Registered(m)
    /\ getRegistrySize(m) = Cardinality(Registered(m))

\* one of two registered ids has been unregistered
C4_Witness ==
  /\ ret.op = "unregister"
  /\ ~has(ret.m, ret.id)
  /\ getRegistrySize(ret.m) = 1
  /\ \E i \in Ids : i # ret.id /\ has(ret.m, i)

\* C5: registering an id that is already registered leaves the registry size as it
\* was and puts the handler passed in place of the one the id had: a content query
\* for the id now yields the new handler's content and a content update reaches
\* the new handler; a content update for a registered id calls the setter of the
\* handler at that id and changes no other handler.
C5_Step ==
  \A m \in Managers, id \in Ids :
    /\ (ret'.op = "register" /\ ret'.m = m /\ ret'.id = id /\ has(m, id)) =>
         /\ SizeOf(registry'[m]) = SizeOf(registry[m])
         /\ registry'[m][id] = ret'.arg
         /\ getSchemaResult(m, id)' = ret'.arg.content
         /\ updateSchemaHandler(m, id)' = id
    /\ (ret'.op = "updateSchema" /\ ret'.m = m /\ ret'.id = id /\ id \in Registered(m)) =>
         /\ ret'.hid = id
         /\ \A m2 \in Managers, j \in Ids :
              (m2 # m \/ j # id) => registry'[m2][j] = registry[m2][j]

C5_ReRegisterReplaces == [][C5_Step]_vars

\* the only registered id has just been registered again, with a handler that
\* differs from the one it had
C5_Witness ==
  /\ ret.op = "register"
  /\ ret.replaced
  /\ registry[ret.m][ret.id] = ret.arg
  /\ getRegistrySize(ret.m) = 1

\* C6: a content query for a registered id returns its handler's current content;
\* a content update with a string Y for an id whose handler stores what its setter
\* receives reports success, makes the next query for that id return Y, and leaves
\* what a query for any other id returns as it was.
C6_Step ==
  \A m \in Managers, id \in Ids :
    /\ (ret'.op = "getSchema" /\ ret'.m = m /\ ret'.id = id /\ has(m, id)) =>
         ret'.val = registry[m][id].content
    /\ (/\ ret'.op = "updateSchema" /\ ret'.m = m /\ ret'.id = id
        /\ has(m, id)
        /\ registry[m][id].stores
        /\ ret'.arg.t = "string") =>
         /\ ret'.val = TRUE
         /\ getSchemaResult(m, id)' = ret'.arg.v
         /\ \A j \in Ids \ {id} : getSchemaResult(m, j)' = getSchemaResult(m, j)

C6_ContentRoundTrip == [][C6_Step]_vars

\* a storing handler now holds the Y of a string update, which no registration
\* passes, next to another registered id
C6_Witness ==
  /\ ret.op = "updateSchema"
  /\ ret.arg = Str("Y")
  /\ ret.val = TRUE
  /\ registry[ret.m][ret.hid].stores
  /\ getSchemaResult(ret.m, ret.id) = "Y"
  /\ getRegistrySize(ret.m) = 2

\* C7: a content query for an id that is not registered returns undefined, sets the
\* current-editing id to none and leaves registry, enabled flag and connection as
\* they were; a query for a registered id makes it the current-editing id.
C7_Step ==
  \A m \in Managers, id \in Ids :
    (ret'.op = "getSchema" /\ ret'.m = m /\ ret'.id = id) =>
      IF has(m, id)
        THEN currentEditingId'[m] = id
        ELSE /\ ret'.val = Undefined
             /\ currentEditingId'[m] = NoId
             /\ UNCHANGED <<registry, enabled, cleanup, conns, balance>>

C7_QueryUnknownId == [][C7_Step]_vars

\* a query for an unknown id has answered undefined on a manager with one handler
C7_Witness ==
  /\ ret.op = "getSchema"
  /\ ret.val = Undefined
  /\ currentEditingId[ret.m] = NoId
  /\ getRegistrySize(ret.m) = 1

\* C8: a content update succeeds exactly when its id is registered at the moment the
\* callback runs; for an id that is not, it reports false, calls no setter and
\* changes no handler's content.
C8_Step ==
  \A m \in Managers, id \in Ids :
    (ret'.op = "updateSchema" /\ ret'.m = m /\ ret'.id = id) =>
      /\ ret'.val = has(m, id)
      /\ ~has(m, id) => (ret'.hid = NoId /\ registry' = registry)

C8_UpdateUnknownId == [][C8_Step]_vars

\* the id that was being edited has been unregistered and an update for it failed
C8_Witness ==
  /\ ret.op = "updateSchema"
  /\ ret.val = FALSE
  /\ currentEditingId[ret.m] = ret.id
  /\ ~has(ret.m, ret.id)
  /\ getRegistrySize(ret.m) = 1

\* C9: setEnabled called with the flag's current value changes nothing and neither
\* opens nor closes a connection.
C9_Step ==
  \A m \in Managers :
    (ret'.op = "setEnabled" /\ ret'.m = m /\ ret'.arg = enabled[m]) =>
      /\ UNCHANGED progVars
      /\ ret'.ev = Void

C9_SetEnabledSameValue == [][C9_Step]_vars

\* setEnabled(true) on a manager whose connection was already open
C9_Witness ==
  /\ ret.op = "setEnabled"
  /\ ret.arg = TRUE
  /\ ret.ev = Void
  /\ IsOpen(ret.m)

\* C10: destroy() closes the instance's connection if open, empties its registry,
\* clears its current-editing id, unmounts and drops its preview root and drops the
\* singleton; the next getInstance() returns an instance with registry size 0,
\* enabled = false and no connection; destroy() with no instance changes nothing.
C10_Step ==
  /\ (ret'.op = "destroy" /\ instance # NoInstance) =>
       /\ cleanup'[instance] = NoConn
       /\ IsOpen(instance) => (ret'.ev = "closed" /\ conns'[cleanup[instance]] = Free)
       /\ registry'[instance] = EmptyRegistry
       /\ currentEditingId'[instance] = NoId
       /\ previewRoot'[instance] = NoRoot
       /\ ret'.root = previewRoot[instance]
       /\ instance' = NoInstance
  /\ (ret'.op = "destroy" /\ instance = NoInstance) => UNCHANGED progVars
  /\ (ret'.op = "getInstance" /\ instance = NoInstance) =>
       /\ instance' # NoInstance
       /\ SizeOf(registry'[instance']) = 0
       /\ ~enabled'[instance']
       /\ cleanup'[instance'] = NoConn

C10_DestroyResets == [][C10_Step]_vars

\* destroy() has closed an open connection and unmounted a preview root
C10_Witness ==
  /\ ret.op = "destroy"
  /\ ret.m # NoInstance
  /\ ret.ev = "closed"
  /\ ret.root # NoRoot
  /\ instance = NoInstance

\* C11: getInstance() returns the current instance and changes nothing while one
\* exists; when none exists it builds one and returns it, an object that is none
\* of those still referenced, so not the instance the last destroy() dropped.
C11_Step ==
  ret'.op = "getInstance" =>
    /\ ret'.m = instance'
    /\ instance' # NoInstance
    /\ instance # NoInstance => (instance' = instance /\ UNCHANGED progVars)
    /\ instance = NoInstance => instance' \notin refs
    /\ (ret.op = "destroy" /\ ret.arg = TRUE /\ ret.m # NoInstance) => ret'.m # ret.m

C11_SameInstanceUntilDestroy == [][C11_Step]_vars

\* getInstance() has returned the existing second instance, which has a handler,
\* while a caller still holds the first, destroyed one
C11_Witness ==
  /\ ret.op = "getInstance"
  /\ ret.m = instance
  /\ getRegistrySize(instance) > 0
  /\ \E m \in refs : m # instance

\* C12: unregister(id) leaves every entry but the one at id, and every other
\* manager's registry, as it was, leaves the enabled flag and the current-editing
\* id alone, and the id has no entry afterwards; for an id without entry it changes
\* nothing at all and neither opens nor closes a connection.
C12_Step ==
  \A m \in Managers, id \in Ids :
    (ret'.op = "unregister" /\ ret'.m = m /\ ret'.id = id) =>
      /\ \A m2 \in Managers, j \in Ids :
           (m2 # m \/ j # id) => registry'[m2][j] = registry[m2][j]
      /\ ~registry'[m][id].present
      /\ UNCHANGED <<enabled, currentEditingId, instance>>
      /\ ~has(m, id) => (UNCHANGED progVars /\ ret'.ev = Void)

C12_UnregisterFrame == [][C12_Step]_vars

\* an id without entry was unregistered on a manager with an open connection,
\* another id registered and being edited
C12_Witness ==
  /\ ret.op = "unregister"
  /\ ~ret.replaced
  /\ IsOpen(ret.m)
  /\ getRegistrySize(ret.m) = 1
  /\ currentEditingId[ret.m] # NoId
  /\ currentEditingId[ret.m] # ret.id

\* C18: a preview render goes to a custom renderer exactly when the current-editing
\* id is set, has an entry, and that entry's handler supplies renderPreview; it is
\* then the renderer of that handler and the built-in preview is not touched.  In
\* every other case no handler's renderer is called and the built-in preview runs:
\* on a container that exists it renders the coerced value into the preview root.
C18_Step ==
  \A m \in Managers :
    (ret'.op = "renderPreview" /\ ret'.m = m) =>
      LET e == currentEditingId[m] IN
      IF e # NoId /\ has(m, e) /\ registry[m][e].preview
        THEN /\ ret'.val = "custom"
             /\ ret'.hid = e
             /\ ret'.root = NoRoot
             /\ UNCHANGED previewRoot
        ELSE /\ ret'.hid = NoId
             /\ ret'.val # "custom"
             /\ ret'.id \in ExistingContainers =>
                  /\ ret'.val = Coerce(ret'.arg)
                  /\ ret'.root # NoRoot
                  /\ ret'.root = previewRoot'[m]

C18_CustomPreviewDelegation == [][C18_Step]_vars

\* the renderer of the handler being edited was called while the other registered
\* handler supplies a renderer too
C18_Witness ==
  /\ ret.op = "renderPreview"
  /\ ret.val = "custom"
  /\ ret.hid = currentEditingId[ret.m]
  /\ \A i \in Ids : has(ret.m, i) /\ registry[ret.m][i].preview

\* C19: a preview render that falls to the built-in preview with a container id no
\* element has returns no teardown, renders nothing, creates no preview root and
\* leaves the manager's state as it was.
C19_Step ==
  \A m \in Managers :
    (/\ ret'.op = "renderPreview" /\ ret'.m = m
     /\ renderPreviewHandler(m) = NoId
     /\ ret'.id \notin ExistingContainers) =>
      /\ ret'.val = Void
      /\ ret'.root = NoRoot
      /\ UNCHANGED progVars

C19_MissingContainerNoOp == [][C19_Step]_vars

\* the built-in preview was asked for a missing container on a manager that has
\* handlers and no preview root
C19_Witness ==
  /\ ret.op = "renderPreview"
  /\ ret.id \notin ExistingContainers
  /\ ret.hid = NoId
  /\ ret.val = Void
  /\ previewRoot[ret.m] = NoRoot
  /\ getRegistrySize(ret.m) > 0

\* SchemaEditorBridgeManager.getInstance().has(id), as a test asks it
ManagerHas(id) == instance # NoInstance /\ has(instance, id)

IdChange == /\ pc.h # NoHookId
            /\ pc.oldId # Undefined
            /\ hook[pc.h].id # Undefined
            /\ pc.oldId # hook[pc.h].id

\* C14: while the commit of a hook whose id changed from A to B runs, A and B are
\* never both registered, and when the commit of an enabled hook has run, A is not
\* registered and B is.
C14_Step ==
  /\ (IdChange => ~(ManagerHas(pc.oldId) /\ ManagerHas(hook[pc.h].id)))'
  /\ \A A, B \in Ids :
       (/\ IdChange /\ pc.oldId = A /\ hook[pc.h].id = B
        /\ hook[pc.h].enabled \in {"true", Undefined}
        /\ pc' = Idle) =>
         (~ManagerHas(A) /\ ManagerHas(B))'

C14_OldIdUnregisteredFirst == [][C14_Step]_vars

\* the cleanup has just removed the entry at the old id and the registration under
\* the new id is still to come
C14_Witness ==
  /\ IdChange
  /\ ret.op = "unregister"
  /\ ret.id = pc.oldId
  /\ ret.replaced
  /\ pc.todo[Len(pc.todo)] = "register"
  /\ ~ManagerHas(hook[pc.h].id)

\* a mount has settled for a hook with an id and no enabled option
MountedWithDefault ==
  /\ pc = Idle
  /\ hret.op = "mount"
  /\ hook[hret.h].id # Undefined
  /\ hook[hret.h].enabled = Undefined

SetterCall(h, v) ==
  /\ pc = Idle /\ pc' = Idle
  /\ hret'.op = "setContent" /\ hret'.h = h /\ hret'.arg = v

\* C15: a call setContent(v) of the hook's setter leaves the hook's content and its
\* content ref at v, makes the handler the hook has registered return v from
\* getContent in the same step, and calls onContentChange exactly once with v, or
\* nothing when no onContentChange is configured; nothing else of the hook changes.
C15_Step ==
  \A h \in Hooks, v \in LocalContents :
    SetterCall(h, v) =>
      /\ hook'[h] = [hook[h] EXCEPT !.content = v, !.contentRef = v]
      /\ \A m \in Managers, id \in Ids :
           (hook[h].cleanupMgr = m /\ hook[h].cleanupId = id) =>
             getSchemaResult(m, id)' = v
      /\ hret'.notified =
           IF hook[h].onContentChange = Undefined THEN <<>>
           ELSE <<[cb |-> hook[h].onContentChange, v |-> v]>>

C15_SetterUpdatesContentAndNotifies == [][C15_Step]_vars

\* a registered hook with a callback has just set a content that differs from its
\* initial content; its handler returns that content and the callback got it once
C15_Witness ==
  /\ pc = Idle
  /\ hret.op = "setContent"
  /\ hook[hret.h].cleanupId # NoId
  /\ hook[hret.h].content = hret.arg
  /\ hret.arg # hook[hret.h].initialContent
  /\ getSchemaResult(hook[hret.h].cleanupMgr, hook[hret.h].cleanupId) = hret.arg
  /\ hook[hret.h].onContentChange # Undefined
  /\ hret.notified = <<[cb |-> hook[hret.h].onContentChange, v |-> hret.arg]>>

\* the step is the host's update of the content at id to schema, and hook h is the
\* one registered under id
ExternalUpdate(h, schema, id) ==
  /\ pc = Idle /\ pc' = Idle
  /\ hret'.op = "updateSchema"
  /\ ret'.op = "updateSchema" /\ ret'.id = id /\ ret'.arg = schema
  /\ ManagerHas(id)
  /\ hook[h].cleanupMgr = instance /\ hook[h].cleanupId = id

\* C16: the host's update of the content at the id of a registered hook succeeds,
\* leaves that hook's content and its handler's content at the new value, and calls
\* the onContentChange the hook's latest render was given exactly once with that
\* value, just as the local setter would, also when the handler was registered by
\* a render with another onContentChange.
C16_Step ==
  \A h \in Hooks, schema \in SchemaValues, id \in Ids :
    ExternalUpdate(h, schema, id) =>
      /\ ret'.val = TRUE
      /\ hook'[h] = [hook[h] EXCEPT !.content = Coerce(schema),
                                    !.contentRef = Coerce(schema)]
      /\ ManagerHas(id)' /\ registry'[instance][id].content = Coerce(schema)
      /\ hret'.h = h
      /\ hret'.notified =
           IF hook[h].onContentChange = Undefined THEN <<>>
           ELSE <<[cb |-> hook[h].onContentChange, v |-> Coerce(schema)]>>
      /\ \A o \in Hooks \ {h} : hook'[o] = hook[o]

C16_ExternalUpdateNotifiesCurrentCallback == [][C16_Step]_vars

\* the host has just updated the content of a hook whose onContentChange was
\* replaced after its handler was registered; the new callback got the value once
C16_Witness ==
  /\ pc = Idle
  /\ hret.op = "updateSchema"
  /\ hret.h \in Hooks
  /\ ret.val = TRUE
  /\ hook[hret.h].cleanupId = ret.id
  /\ hook[hret.h].content = hret.arg
  /\ hook[hret.h].handlerCb # Undefined
  /\ hook[hret.h].onContentChange # Undefined
  /\ hook[hret.h].onContentChange # hook[hret.h].handlerCb
  /\ hret.notified = <<[cb |-> hook[hret.h].onContentChange, v |-> hret.arg]>>

\* the steps a commit still has to run
Due(p) == {p.todo[i] : i \in 1..Len(p.todo)}

\* the content a hook shows, holds in its ref and serves from its handler
SameContent(h) ==
  /\ hook'[h].content = hook[h].content
  /\ hook'[h].contentRef = hook[h].contentRef

\* C17: a re-render that changes initialContent makes the initialContent effect due,
\* and that effect leaves the hook's content, its ref and its registered handler's
\* content at the new initialContent; a re-render that keeps initialContent, and
\* every other step of a commit, keeps the hook's content and ref; and whenever no
\* commit is in progress a registered handler returns the hook's content.
C17_Step ==
  /\ \A h \in Hooks :
       (pc = Idle /\ hret'.op = "rerender" /\ hret'.h = h /\ hook[h].mounted
        /\ hook'[h].mounted) =>
         /\ SameContent(h)
         /\ (hook'[h].initialContent # hook[h].initialContent) <=> ("initial" \in Due(pc'))
  /\ \A h \in Hooks, c \in Contents :
       (pc.h = h /\ AtStep("initial") /\ hook[h].initialContent = c /\ pc' # pc) =>
         /\ hook'[h].content = c
         /\ hook'[h].contentRef = c
         /\ \A m \in Managers, id \in Ids :
              (hook[h].cleanupMgr = m /\ hook[h].cleanupId = id) =>
                getSchemaResult(m, id)' = c
  /\ \A h \in Hooks :
       (pc # Idle /\ ~AtStep("initial") /\ hook[h].mounted) => SameContent(h)
  /\ (pc = Idle =>
        \A h \in Hooks :
          hook[h].cleanupId # NoId =>
            getSchemaResult(hook[h].cleanupMgr, hook[h].cleanupId) = hook[h].contentRef)'

C17_InitialContentWins == [][C17_Step]_vars

\* a re-render with another initialContent has settled on a registered hook whose
\* content had been updated by the host: hook and handler show the new initialContent
C17_Witness ==
  /\ pc = Idle
  /\ hret.op = "rerender"
  /\ ret.op = "updateSchema" /\ ret.val = TRUE
  /\ hook[hret.h].cleanupId = ret.id
  /\ Coerce(ret.arg) # hook[hret.h].initialContent
  /\ hook[hret.h].content = hook[hret.h].initialContent
  /\ getSchemaResult(hook[hret.h].cleanupMgr, ret.id) = hook[hret.h].initialContent

\* C21: in every reachable state in which a manager's connection is closed, the
\* manager owns no preview render target.
C21_ClosedHasNoPreviewRoot ==
  \A m \in Managers : ~IsOpen(m) => previewRoot[m] = NoRoot

\* C22: in every reachable state in which a manager's connection is closed, its
\* current-editing identifier is none.
C22_ClosedHasNoEditingId ==
  \A m \in Managers : ~IsOpen(m) => currentEditingId[m] = NoId

\* a mounted hook that has an id and is enabled
WantsBridge(h) == hook[h].mounted /\ hook[h].id # Undefined /\ hook[h].enabled # "false"

\* the current manager holds an open connection
BridgeOpen == instance # NoInstance /\ IsOpen(instance)

\* C23: with hooks as the only callers, whenever no commit is in progress the
\* connection is open exactly when some mounted hook has an id and is enabled, and
\* no manager but the current one ever holds a connection.
C23_OpenIffSomeHookEnabled ==
  /\ pc = Idle => (BridgeOpen <=> \E h \in Hooks : WantsBridge(h))
  /\ \A m \in Managers : IsOpen(m) => m = instance

\* the last enabled hook has gone: the connection was closed by the unregister and
\* the manager's enabled flag is still true
C23_Witness ==
  /\ pc = Idle
  /\ hret.op \in {"unmount", "rerender"}
  /\ ret.op = "unregister"
  /\ ret.ev = "closed"
  /\ instance # NoInstance
  /\ isEnabled(instance)
  /\ ~IsOpen(instance)
  /\ \E h \in Hooks : hook[h].mounted /\ hook[h].id # Undefined /\ hook[h].enabled = "false"

\* the entry at id of manager m is a handler a direct register call put there
DirectlyRegistered(m, id) == has(m, id) /\ registry[m][id] = DirectHandler

\* C24: where hooks are the only callers that unregister, an entry that a direct
\* register call put in the registry stays until a register call replaces it: no
\* hook's disabled branch or cleanup deletes it.
C24_Step ==
  \A m \in Managers, id \in Ids :
    (DirectlyRegistered(m, id) /\ ret'.op # "register") => DirectlyRegistered(m, id)'

C24_HookRemovesOnlyItsOwnEntry == [][C24_Step]_vars

\* a manager that destroy() has dropped while some caller still holds a reference
Destroyed(m) == m \in refs /\ m # instance

\* C25: a destroyed manager holds no connection, whatever is called through a
\* reference obtained before the destroy.
C25_DestroyedStaysClosed ==
  \A m \in Managers : Destroyed(m) => ~IsOpen(m)

\* the last call was a preview render that fell back to the built-in preview for a
\* container that exists
FallbackRendered ==
  /\ ret.op = "renderPreview"
  /\ ret.hid = NoId
  /\ ret.id \in ExistingContainers

\* C26: after a fallback preview render for an existing container, the manager's
\* preview render target is bound to the container named in that call.
C26_FallbackRendersIntoNamedContainer ==
  FallbackRendered => previewRoot[ret.m] = ret.id

\* C27: whenever no commit is in progress, the handler a hook has registered has a
\* renderPreview exactly when the hook's latest render was given one.
C27_HandlerCarriesLatestRenderPreview ==
  pc = Idle =>
    \A h \in Hooks :
      (hook[h].cleanupId # NoId /\ has(hook[h].cleanupMgr, hook[h].cleanupId)) =>
        (registry[hook[h].cleanupMgr][hook[h].cleanupId].preview
           <=> hook[h].renderPreview # Undefined)

\* C28: the onContentChange calls of a hook event are none unless the event is a
\* call of the hook's setter or the host's content update, and then at most one:
\* mounting, re-rendering, re-seeding from a changed initialContent, registering,
\* unmounting and content queries call no onContentChange.
C28_OnlySetterAndUpdateNotify ==
  /\ Len(hret.notified) <= 1
  /\ hret.notified # <<>> => hret.op \in {"setContent", "updateSchema"}

\* a hook that has an onContentChange was re-seeded from a changed initialContent
\* after the host had updated its content, and no callback was called
C28_Witness ==
  /\ pc = Idle
  /\ hret.op = "rerender"
  /\ hook[hret.h].onContentChange # Undefined
  /\ ret.op = "updateSchema" /\ ret.val = TRUE
  /\ hook[hret.h].cleanupId = ret.id
  /\ Coerce(ret.arg) # hook[hret.h].initialContent
  /\ hook[hret.h].content = hook[hret.h].initialContent
  /\ hret.notified = <<>>

====
